---- MODULE Spec2Model ----
(***************************************************************************)
(* Runner's Cycle Coach (src/Runner_Cycle_Coach.py): one run of the        *)
(* Streamlit script for one uploaded CSV file.                             *)
(*                                                                         *)
(*   upload -> parse_file -> calculate_metrics -> top level stats          *)
(*          -> generate_coach_feedback -> charts                           *)
(*                                                                         *)
(* Cell texts are sequences of one-character strings, so that substring    *)
(* tests and numeric parsing are computed, not assumed.  Numbers are exact *)
(* rationals extended with nan, inf and -inf (numpy float64 division by    *)
(* zero does not raise).  All numeric cells of the model are integers, for *)
(* which the float64 sums and means of the code are exact.                 *)
(***************************************************************************)
EXTENDS Integers, Sequences, FiniteSets, TLC

VARIABLES uploaded_file, pc, layout, df, st_error, st_warning, m, subscripted,
          feedback, chart_df, exc

vars == <<uploaded_file, pc, layout, df, st_error, st_warning, m, subscripted,
          feedback, chart_df, exc>>

(***************************************************************************)
(* Bounds of the model.                                                    *)
(***************************************************************************)
\* rows of a table drawn to exercise the column layouts and the cell parsing
MaxRowsLayout == 2
\* rows (one per second) of a well-formed ride
MaxRows == 4

(***************************************************************************)
(* Text.                                                                   *)
(***************************************************************************)
Digits == {"0", "1", "2", "3", "4", "5", "6", "7", "8", "9"}

DigitVal(c) ==
    CASE c = "0" -> 0 [] c = "1" -> 1 [] c = "2" -> 2 [] c = "3" -> 3
      [] c = "4" -> 4 [] c = "5" -> 5 [] c = "6" -> 6 [] c = "7" -> 7
      [] c = "8" -> 8 [] c = "9" -> 9

\* Python's `pat in s` for strings
Contains(s, pat) ==
    \E i \in 1..(Len(s) - Len(pat) + 1) : SubSeq(s, i, i + Len(pat) - 1) = pat

IsDigits(s) == Len(s) > 0 /\ \A i \in 1..Len(s) : s[i] \in Digits

RECURSIVE ParseInt(_)
ParseInt(s) ==
    IF Len(s) = 0 THEN 0
    ELSE 10 * ParseInt(SubSeq(s, 1, Len(s) - 1)) + DigitVal(s[Len(s)])

DigitChar(k) == CHOOSE c \in Digits : DigitVal(c) = k

\* the decimal text of a natural number, as a CSV export writes it
RECURSIVE ToText(_)
ToText(k) ==
    IF k < 10 THEN <<DigitChar(k)>>
    ELSE ToText(k \div 10) \o <<DigitChar(k % 10)>>

\* the cell texts of the model
EMPTY    == <<>>
TXT_DATE == <<"2", "0", "2", "4", "-", "0", "1", "-", "0", "1">>
TXT_TIME == <<"T", "i", "m", "e">>
TXT_ABC  == <<"a", "b", "c">>
TXT_TRUE == <<"T", "r", "u", "e">>
TXT_2024 == <<"2", "0", "2", "4">>
TXT_5    == <<"5">>
TXT_0    == <<"0">>
TXT_10   == <<"1", "0">>
TXT_95   == <<"9", "5">>
TXT_140  == <<"1", "4", "0">>
TXT_150  == <<"1", "5", "0">>

(***************************************************************************)
(* Values: what a cell of a DataFrame holds.                               *)
(*   nan (also NaT and None), num n/d, inf, ninf, str s, bool, ts n        *)
(***************************************************************************)
NaN      == [t |-> "nan", n |-> 0, d |-> 1, s |-> <<>>]
Inf      == [t |-> "inf", n |-> 0, d |-> 1, s |-> <<>>]
NegInf   == [t |-> "ninf", n |-> 0, d |-> 1, s |-> <<>>]
Str(s)   == [t |-> "str", n |-> 0, d |-> 1, s |-> s]
Bool(b)  == [t |-> "bool", n |-> IF b THEN 1 ELSE 0, d |-> 1, s |-> <<>>]
Ts(n)    == [t |-> "ts", n |-> n, d |-> 1, s |-> <<>>]

RECURSIVE Gcd(_, _)
Gcd(a, b) == IF b = 0 THEN a ELSE Gcd(b, a % b)

Abs(x) == IF x < 0 THEN -x ELSE x

\* the rational n/d in lowest terms, d > 0
Num(n, d) ==
    LET g == Gcd(Abs(n), Abs(d))
        sgn == IF d < 0 THEN -1 ELSE 1
    IN  [t |-> "num", n |-> sgn * (n \div g), d |-> sgn * (d \div g), s |-> <<>>]

Int2Num(k) == Num(k, 1)

IsNull(v) == v.t = "nan"

(***************************************************************************)
(* pandas: read_csv, to_datetime, to_numeric, dropna.                      *)
(***************************************************************************)
BoolTexts == {TXT_TRUE, <<"F", "a", "l", "s", "e">>}

\* read_csv infers one dtype per column: numeric when every non-empty cell is
\* a number, bool when every non-empty cell is True/False, object (the cell
\* texts as str) otherwise; an empty cell is NaN in each case
InferColumn(cells) ==
    LET nonEmpty == {i \in 1..Len(cells) : cells[i] # EMPTY}
        numeric  == \A i \in nonEmpty : IsDigits(cells[i])
        boolean  == \A i \in nonEmpty : cells[i] \in BoolTexts
    IN  [i \in 1..Len(cells) |->
            IF cells[i] = EMPTY THEN NaN
            ELSE IF numeric THEN Int2Num(ParseInt(cells[i]))
            ELSE IF boolean THEN Bool(cells[i] = TXT_TRUE)
            ELSE Str(cells[i])]

\* A DataFrame: its columns, its index labels (the row numbers of the file,
\* kept by every row filter) and one sequence of values per column
EmptyDataFrame == [columns |-> {}, index |-> <<>>, data |-> [c \in {} |-> <<>>]]

NRows(frame) == Len(frame.index)

\* DataFrame.empty: some axis has length 0
IsEmptyFrame(frame) == frame.columns = {} \/ NRows(frame) = 0

\* pd.read_csv(uploaded_file, on_bad_lines='skip', low_memory=False)
read_csv(file) ==
    CASE file.kind = "empty" -> [raised |-> "EmptyDataError", df |-> EmptyDataFrame]
      [] file.kind = "unreadable" -> [raised |-> "UnicodeDecodeError", df |-> EmptyDataFrame]
      [] file.kind = "csv" ->
            [raised |-> "none",
             df |-> [columns |-> file.columns,
                     index |-> [i \in 1..file.nrows |-> i],
                     data |-> [c \in file.columns |-> InferColumn(file.cells[c])]]]

\* the one date format of the model's cell texts: YYYY-MM-DD
IsIsoDate(s) ==
    /\ Len(s) = 10
    /\ s[5] = "-" /\ s[8] = "-"
    /\ \A i \in {1, 2, 3, 4, 6, 7, 9, 10} : s[i] \in Digits
    /\ ParseInt(SubSeq(s, 6, 7)) \in 1..12
    /\ ParseInt(SubSeq(s, 9, 10)) \in 1..31

\* pd.to_datetime(column, errors='coerce'), per value: a number is an epoch
\* offset, a date text is its date, anything else is NaT
to_datetime(v) ==
    CASE v.t = "num" -> Ts(v.n)
      [] v.t = "str" ->
            IF IsIsoDate(v.s)
            THEN Ts(ParseInt(SubSeq(v.s, 1, 4)) * 10000
                    + ParseInt(SubSeq(v.s, 6, 7)) * 100
                    + ParseInt(SubSeq(v.s, 9, 10)))
            ELSE NaN
      [] OTHER -> NaN

\* pd.to_numeric(column, errors='coerce'), per value
to_numeric(v) ==
    CASE v.t = "num" -> v
      [] v.t = "str" -> IF IsDigits(v.s) THEN Int2Num(ParseInt(v.s)) ELSE NaN
      [] v.t = "bool" -> Int2Num(v.n)
      [] OTHER -> NaN

MapColumn(Op(_), col) == [i \in 1..Len(col) |-> Op(col[i])]

\* the positions of a sequence that satisfy keep, in order
RECURSIVE KeptPositions(_, _, _)
KeptPositions(n, keep, i) ==
    IF i > n THEN <<>>
    ELSE IF keep[i] THEN <<i>> \o KeptPositions(n, keep, i + 1)
    ELSE KeptPositions(n, keep, i + 1)

\* frame[mask] / frame.iloc[positions]: the rows at the positions, in order
TakeRows(frame, pos) ==
    [columns |-> frame.columns,
     index |-> [k \in 1..Len(pos) |-> frame.index[pos[k]]],
     data |-> [c \in frame.columns |-> [k \in 1..Len(pos) |-> frame.data[c][pos[k]]]]]

\* df_clean.dropna(subset=['timestamp', 'power'], inplace=True)
dropna(frame, subset) ==
    IF ~(subset \subseteq frame.columns)
    THEN [raised |-> "KeyError", df |-> frame]
    ELSE LET keep == [i \in 1..NRows(frame) |->
                         \A c \in subset : ~IsNull(frame.data[c][i])]
         IN  [raised |-> "none",
              df |-> TakeRows(frame, KeptPositions(NRows(frame), keep, 1))]

(***************************************************************************)
(* parse_file.                                                             *)
(***************************************************************************)
\* df_raw['GOTOES_CSV'].dropna().iloc[0] if not ...dropna().empty else ""
FirstNonNull(col) ==
    LET nonNull == {i \in 1..Len(col) : ~IsNull(col[i])}
    IN  IF nonNull = {} THEN Str(<<>>)
        ELSE col[CHOOSE i \in nonNull : \A j \in nonNull : i <= j]

\* a variant of the detection that samples the first row, empty or not
is_shifted_first_row(df_raw) ==
    /\ "GOTOES_CSV" \in df_raw.columns
    /\ Len(df_raw.data["GOTOES_CSV"]) > 0
    /\ LET sample == df_raw.data["GOTOES_CSV"][1]
       IN  /\ sample.t = "str"
           /\ Contains(sample.s, <<"2", "0", "2">>) \/ Contains(sample.s, <<"T">>)

\* the shift detection: isinstance(sample, str) and ('202' in sample or 'T' in sample)
is_shifted(df_raw) ==
    /\ "GOTOES_CSV" \in df_raw.columns
    /\ LET sample == FirstNonNull(df_raw.data["GOTOES_CSV"])
       IN  /\ sample.t = "str"
           /\ Contains(sample.s, <<"2", "0", "2">>) \/ Contains(sample.s, <<"T">>)

\* the shifted mapping: GOTOES_CSV holds the timestamp, altitude the heart
\* rate, heart_rate the cadence and speed the power; a missing column raises
LayoutB(df_raw) ==
    IF ~({"altitude", "heart_rate", "speed"} \subseteq df_raw.columns)
    THEN [raised |-> "KeyError", df |-> EmptyDataFrame]
    ELSE [raised |-> "none",
          df |-> [columns |-> {"timestamp", "heart_rate", "cadence", "power"},
                  index |-> df_raw.index,
                  data |-> [c \in {"timestamp", "heart_rate", "cadence", "power"} |->
                      CASE c = "timestamp" -> MapColumn(to_datetime, df_raw.data["GOTOES_CSV"])
                        [] c = "heart_rate" -> MapColumn(to_numeric, df_raw.data["altitude"])
                        [] c = "cadence" -> MapColumn(to_numeric, df_raw.data["heart_rate"])
                        [] c = "power" -> MapColumn(to_numeric, df_raw.data["speed"])]]]

\* the standard mapping: only when there is a power column, the columns of
\* col_map that exist are copied as read_csv left them, and the timestamp
\* alone is converted
LayoutA(df_raw) ==
    IF "power" \in df_raw.columns
    THEN LET cols == {"timestamp", "heart_rate", "cadence", "power"} \cap df_raw.columns
         IN  [columns |-> cols,
              index |-> df_raw.index,
              data |-> [c \in cols |->
                  IF c = "timestamp"
                  THEN MapColumn(to_datetime, df_raw.data[c])
                  ELSE df_raw.data[c]]]
    ELSE EmptyDataFrame

\* the body of the try block: the frame or the exception raised, and the
\* mapping that was applied ("none" when read_csv raised)
ParseBody(file) ==
    LET raw == read_csv(file)
        Out(r, l) == [raised |-> r.raised, df |-> r.df, layout |-> l]
    IN  IF raw.raised # "none" THEN Out(raw, "none")
        ELSE IF is_shifted(raw.df)
        THEN LET b == LayoutB(raw.df)
             IN  IF b.raised # "none" THEN Out(b, "B")
                 ELSE Out(dropna(b.df, {"timestamp", "power"}), "B")
        ELSE Out(dropna(LayoutA(raw.df), {"timestamp", "power"}), "A")

\* a variant of the handler that catches the errors of read_csv only
CaughtByHandler_ReadErrorsOnly(e) ==
    e \in {"EmptyDataError", "UnicodeDecodeError"}

\* except Exception: every exception of the body is an Exception
CaughtByHandler(e) ==
    e \in {"EmptyDataError", "UnicodeDecodeError", "KeyError", "TypeError"}

\* parse_file: the frame returned, whether st.error was shown, and the
\* exception that left the function ("none" when it returned)
parse_file(file) ==
    LET body == ParseBody(file)
    IN  IF body.raised = "none"
        THEN [df |-> body.df, st_error |-> FALSE, raised |-> "none",
              layout |-> body.layout]
        ELSE IF CaughtByHandler(body.raised)
        THEN [df |-> EmptyDataFrame, st_error |-> TRUE, raised |-> "none",
              layout |-> body.layout]
        ELSE [df |-> EmptyDataFrame, st_error |-> FALSE, raised |-> body.raised,
              layout |-> body.layout]

(***************************************************************************)
(* The files of the model.                                                 *)
(***************************************************************************)
NoFile == [kind |-> "none", columns |-> {}, nrows |-> 0, cells |-> [c \in {} |-> <<>>]]
EmptyFile == [kind |-> "empty", columns |-> {}, nrows |-> 0, cells |-> [c \in {} |-> <<>>]]
UnreadableFile == [kind |-> "unreadable", columns |-> {}, nrows |-> 0, cells |-> [c \in {} |-> <<>>]]

Const(n, txt) == [i \in 1..n |-> txt]

\* a CSV file with the columns cs and n rows
Table(cs, n, mk, ts, hr, cd, pw, al, sp) ==
    [kind |-> "csv", columns |-> cs, nrows |-> n,
     cells |-> [c \in cs |->
         CASE c = "GOTOES_CSV" -> mk [] c = "timestamp" -> ts
           [] c = "heart_rate" -> hr [] c = "cadence" -> cd
           [] c = "power" -> pw [] c = "altitude" -> al
           [] c = "speed" -> sp [] c = "lap" -> Const(n, TXT_5)]]

\* a marker column is a text column or a numeric one
MarkerColumns(n) ==
    [1..n -> {EMPTY, TXT_DATE, TXT_TIME, TXT_ABC, TXT_TRUE}]
        \cup [1..n -> {EMPTY, TXT_2024, TXT_5}]

\* the column sets of the tables drawn for each family
DetectionColumnSets ==
    { {"GOTOES_CSV"},
      {"GOTOES_CSV", "timestamp", "heart_rate", "cadence", "power"},
      {"GOTOES_CSV", "altitude", "heart_rate", "speed"} }

LayoutAColumnSets ==
    { {"timestamp", "heart_rate", "cadence", "power"},
      {"timestamp", "cadence", "power"},
      {"timestamp", "heart_rate", "power"},
      {"heart_rate", "cadence", "power"},
      {"timestamp", "heart_rate", "cadence"},
      {"lap"} }

LayoutBColumnSets ==
    { {"GOTOES_CSV", "altitude", "heart_rate", "speed"},
      {"GOTOES_CSV", "altitude", "heart_rate", "speed", "power"},
      {"GOTOES_CSV", "heart_rate", "speed", "power"},
      {"GOTOES_CSV", "altitude", "speed"},
      {"GOTOES_CSV", "altitude", "heart_rate"} }

(***************************************************************************)
(* float64 arithmetic on num, nan, inf, ninf (numpy: x/0 is inf or nan).   *)
(***************************************************************************)
FAdd(a, b) == Num(a.n * b.d + b.n * a.d, a.d * b.d)

FSub(a, b) ==
    CASE a.t = "nan" \/ b.t = "nan" -> NaN
      [] a.t = "num" /\ b.t = "num" -> Num(a.n * b.d - b.n * a.d, a.d * b.d)
      [] a.t = b.t -> NaN
      [] a.t = "inf" \/ b.t = "ninf" -> Inf
      [] OTHER -> NegInf

Negated(a) == CASE a.t = "inf" -> NegInf [] a.t = "ninf" -> Inf [] OTHER -> a

FDiv(a, b) ==
    CASE a.t = "nan" \/ b.t = "nan" -> NaN
      [] a.t = "num" /\ b.t = "num" ->
            IF b.n # 0 THEN Num(a.n * b.d, a.d * b.n)
            ELSE IF a.n > 0 THEN Inf
            ELSE IF a.n < 0 THEN NegInf
            ELSE NaN
      [] a.t = "num" -> Int2Num(0)
      [] b.t = "num" -> IF b.n < 0 THEN Negated(a) ELSE a
      [] OTHER -> NaN

\* a * k for an integer k > 0
FScale(a, k) == IF a.t = "num" THEN Num(a.n * k, a.d) ELSE a

\* comparisons with an integer k: every comparison with nan is False
Lt(a, k) == a.t = "ninf" \/ (a.t = "num" /\ a.n < k * a.d)
Gt(a, k) == a.t = "inf" \/ (a.t = "num" /\ a.n > k * a.d)
Le(a, k) == a.t = "ninf" \/ (a.t = "num" /\ a.n <= k * a.d)
Ge(a, k) == a.t = "inf" \/ (a.t = "num" /\ a.n >= k * a.d)

RECURSIVE SumNum(_)
SumNum(col) ==
    IF Len(col) = 0 THEN Int2Num(0)
    ELSE IF IsNull(col[1]) THEN SumNum(Tail(col))
    ELSE FAdd(col[1], SumNum(Tail(col)))

Count(col) == Cardinality({i \in 1..Len(col) : ~IsNull(col[i])})

\* Series.mean(): the mean of the values present, nan when there is none
Mean(col) ==
    IF Count(col) = 0 THEN NaN ELSE FDiv(SumNum(col), Int2Num(Count(col)))

Squares(col) ==
    [i \in 1..Len(col) |-> IF IsNull(col[i]) THEN NaN
                           ELSE Num(col[i].n * col[i].n, col[i].d * col[i].d)]

\* an object column holding str values: comparing it with a number, or
\* taking its mean, raises TypeError
HasStr(col) == \E i \in 1..Len(col) : col[i].t = "str"

(***************************************************************************)
(* calculate_metrics.                                                      *)
(***************************************************************************)
Unset == [k |-> "unset", duration |-> NaN, avg_pwr |-> NaN, norm_pwr |-> NaN,
          avg_hr |-> NaN, avg_cad |-> NaN, ef |-> NaN, decoupling |-> NaN]

None == [k |-> "None", duration |-> NaN, avg_pwr |-> NaN, norm_pwr |-> NaN,
         avg_hr |-> NaN, avg_cad |-> NaN, ef |-> NaN, decoupling |-> NaN]

\* active = df[df['power'] > 10]
Active(frame) ==
    TakeRows(frame,
             KeptPositions(NRows(frame),
                           [i \in 1..NRows(frame) |-> Gt(frame.data["power"][i], 10)],
                           1))

\* a variant of the midpoint taken over all the samples
mid_of_all_rows(frame, active) == NRows(frame) \div 2

\* mid = len(active) // 2
mid(frame, active) == NRows(active) \div 2

Min(a, b) == IF a < b THEN a ELSE b

\* active.iloc[:k] and active.iloc[k:]
IlocHead(frame, k) == TakeRows(frame, [i \in 1..Min(k, NRows(frame)) |-> i])
IlocTail(frame, k) ==
    TakeRows(frame, [i \in 1..(NRows(frame) - Min(k, NRows(frame))) |->
                        i + Min(k, NRows(frame))])

\* the decoupling (Pw:HR) of the two halves of the active samples
Decoupling(frame, active) ==
    LET h1 == IlocHead(active, mid(frame, active))
        h2 == IlocTail(active, mid(frame, active))
    IN  IF NRows(h1) > 0 /\ NRows(h2) > 0
        THEN LET ef1 == FDiv(Mean(h1.data["power"]), Mean(h1.data["heart_rate"]))
                 ef2 == FDiv(Mean(h2.data["power"]), Mean(h2.data["heart_rate"]))
             IN  FScale(FDiv(FSub(ef1, ef2), ef1), 100)
        ELSE Int2Num(0)

\* the record returned; norm_pwr is held as its radicand mean(power^2), of
\* which the code returns the square root
MetricsOf(frame, active) ==
    LET avg_pwr == Mean(active.data["power"])
        avg_hr  == Mean(active.data["heart_rate"])
    IN  [k |-> "dict",
         duration |-> Num(NRows(frame), 60),
         avg_pwr |-> avg_pwr,
         norm_pwr |-> Mean(Squares(active.data["power"])),
         avg_hr |-> avg_hr,
         avg_cad |-> Mean(active.data["cadence"]),
         ef |-> IF Gt(avg_hr, 0) THEN FDiv(avg_pwr, avg_hr) ELSE Int2Num(0),
         decoupling |-> Decoupling(frame, active)]

\* calculate_metrics: the value returned and the exception raised ("none"
\* when it returned)
calculate_metrics(frame) ==
    IF "power" \notin frame.columns THEN [raised |-> "KeyError", m |-> Unset]
    ELSE IF HasStr(frame.data["power"]) THEN [raised |-> "TypeError", m |-> Unset]
    ELSE LET active == Active(frame)
         IN  IF NRows(active) = 0 THEN [raised |-> "none", m |-> None]
             ELSE IF "heart_rate" \notin frame.columns
             THEN [raised |-> "KeyError", m |-> Unset]
             ELSE IF HasStr(active.data["heart_rate"])
             THEN [raised |-> "TypeError", m |-> Unset]
             ELSE IF "cadence" \notin frame.columns
             THEN [raised |-> "KeyError", m |-> Unset]
             ELSE IF HasStr(active.data["cadence"])
             THEN [raised |-> "TypeError", m |-> Unset]
             ELSE [raised |-> "none", m |-> MetricsOf(frame, active)]

(***************************************************************************)
(* generate_coach_feedback: the messages, by their titles.                 *)
(***************************************************************************)
PowerCheck(metrics) ==
    IF Lt(metrics.avg_pwr, 115) THEN <<"Recovery Ride">>
    ELSE IF Ge(metrics.avg_pwr, 125) /\ Le(metrics.avg_pwr, 140) THEN <<"Sweet Spot Z2">>
    ELSE IF Gt(metrics.avg_pwr, 140) /\ Le(metrics.avg_pwr, 155) THEN <<"High Z2">>
    ELSE IF Gt(metrics.avg_pwr, 160) THEN <<"Intensity Alert">>
    ELSE <<>>

DecouplingCheck(metrics) ==
    IF Lt(metrics.decoupling, 3) THEN <<"Efficiency: Excellent">>
    ELSE IF Lt(metrics.decoupling, 5) THEN <<"Efficiency: Good">>
    ELSE <<"Drift Alert">>

CadenceCheck(metrics) ==
    IF Lt(metrics.avg_cad, 85) THEN <<"Grind Warning">>
    ELSE IF Gt(metrics.avg_cad, 90) THEN <<"Spin to Win">>
    ELSE <<>>

generate_coach_feedback(metrics) ==
    PowerCheck(metrics) \o DecouplingCheck(metrics) \o CadenceCheck(metrics)

(***************************************************************************)
(* The script: one run.                                                    *)
(***************************************************************************)
NoExc == [type |-> "none", at |-> "none"]

\* an exception of type e leaves the call at `at`: nothing of the script
\* catches it, and the run ends
Escapes(e, at) == [type |-> e, at |-> at]

Init ==
    /\ uploaded_file = NoFile
    /\ pc = "idle"
    /\ layout = "none"
    /\ df = EmptyDataFrame
    /\ st_error = FALSE
    /\ st_warning = FALSE
    /\ m = Unset
    /\ subscripted = FALSE
    /\ feedback = <<>>
    /\ chart_df = EmptyDataFrame
    /\ exc = NoExc

\* uploaded_file = st.file_uploader(...): the user uploads the file f
Upload(f) ==
    /\ pc = "idle"
    /\ uploaded_file' = f
    /\ pc' = "parse"
    /\ UNCHANGED <<layout, df, st_error, st_warning, m, subscripted, feedback, chart_df, exc>>

\* a file of zero bytes, or one that is no text at all
UploadBroken ==
    /\ pc = "idle"
    /\ \E f \in {EmptyFile, UnreadableFile} : Upload(f)

\* every marker column, alone and beside well-formed columns of each layout
UploadDetection ==
    /\ pc = "idle"
    /\ \E n \in 0..MaxRowsLayout : \E cs \in DetectionColumnSets, mk \in MarkerColumns(n) :
        Upload(Table(cs, n, mk, Const(n, TXT_DATE), Const(n, TXT_140), Const(n, TXT_95),
                     Const(n, TXT_150), Const(n, TXT_140), Const(n, TXT_150)))

\* standard tables: with the four columns any cell may be empty or not
\* parseable; a table that misses columns has well-formed cells
UploadLayoutA ==
    /\ pc = "idle"
    /\ \E n \in 0..MaxRowsLayout : \E cs \in LayoutAColumnSets :
        LET full == cs = {"timestamp", "heart_rate", "cadence", "power"}
        IN  \E ts \in [1..n -> IF full THEN {EMPTY, TXT_DATE, TXT_ABC} ELSE {TXT_DATE}],
               hr \in [1..n -> IF full THEN {TXT_140, TXT_ABC} ELSE {TXT_140}],
               pw \in [1..n -> IF full THEN {EMPTY, TXT_150, TXT_ABC} ELSE {TXT_10, TXT_150}] :
                Upload(Table(cs, n, <<>>, ts, hr, Const(n, TXT_95), pw, <<>>, <<>>))

\* shifted tables, likewise
UploadLayoutB ==
    /\ pc = "idle"
    /\ \E n \in 0..MaxRowsLayout : \E cs \in LayoutBColumnSets :
        LET full == cs = {"GOTOES_CSV", "altitude", "heart_rate", "speed"}
        IN  \E mk \in [1..n -> IF full THEN {EMPTY, TXT_DATE, TXT_TIME} ELSE {TXT_DATE}],
               al \in [1..n -> IF full THEN {TXT_140, TXT_ABC} ELSE {TXT_140}],
               sp \in [1..n -> IF full THEN {EMPTY, TXT_150, TXT_ABC} ELSE {TXT_10, TXT_150}] :
                Upload(Table(cs, n, mk, <<>>, Const(n, TXT_95), <<>>, Const(n, TXT_150), al, sp))

\* well-formed rides, one row per second: power 10 (not pedalling) or 150,
\* heart rate missing, 0 (strap dropout), 140 or 150
UploadRide ==
    /\ pc = "idle"
    /\ \E n \in 1..MaxRows : \E
       hr \in [1..n -> {EMPTY, TXT_0, TXT_140, TXT_150}],
       pw \in [1..n -> {TXT_10, TXT_150}] :
        Upload(Table({"timestamp", "heart_rate", "cadence", "power"}, n, <<>>,
                     Const(n, TXT_DATE), hr, Const(n, TXT_95), pw, <<>>, <<>>))

\* steady rides: the same power, heart rate and cadence in every row, with
\* the power and the cadence around the thresholds of the feedback rules
UploadSteady ==
    /\ pc = "idle"
    /\ \E n \in 1..MaxRows,
          p \in {114, 115, 124, 125, 140, 141, 155, 156, 160, 161},
          c \in {84, 85, 90, 91} :
        Upload(Table({"timestamp", "heart_rate", "cadence", "power"}, n, <<>>,
                     Const(n, TXT_DATE), Const(n, TXT_140), Const(n, ToText(c)),
                     Const(n, ToText(p)), <<>>, <<>>))

\* df = parse_file(uploaded_file)
ParseFile ==
    /\ pc = "parse"
    /\ LET r == parse_file(uploaded_file)
       IN  /\ df' = r.df
           /\ st_error' = r.st_error
           /\ layout' = r.layout
           /\ exc' = IF r.raised = "none" THEN NoExc ELSE Escapes(r.raised, "parse_file")
           /\ pc' = IF r.raised = "none" THEN "branch" ELSE "crashed"
    /\ UNCHANGED <<uploaded_file, st_warning, m, subscripted, feedback, chart_df>>

\* if not df.empty: ... else: st.warning(...)
Branch ==
    /\ pc = "branch"
    /\ IF ~IsEmptyFrame(df)
       THEN pc' = "calc" /\ UNCHANGED st_warning
       ELSE pc' = "done" /\ st_warning' = TRUE
    /\ UNCHANGED <<uploaded_file, layout, df, st_error, m, subscripted, feedback, chart_df, exc>>

\* m = calculate_metrics(df)
CalculateMetrics ==
    /\ pc = "calc"
    /\ LET r == calculate_metrics(df)
       IN  /\ m' = r.m
           /\ exc' = IF r.raised = "none" THEN NoExc
                     ELSE Escapes(r.raised, "calculate_metrics")
           /\ pc' = IF r.raised = "none" THEN "stats" ELSE "crashed"
    /\ UNCHANGED <<uploaded_file, layout, df, st_error, st_warning, subscripted, feedback, chart_df>>

\* c1.metric("Avg Power", f"{m['avg_pwr']:.0f} W") ...: m is subscripted
\* without a check, and None is not subscriptable
TopLevelStats ==
    /\ pc = "stats"
    /\ subscripted' = TRUE
    /\ IF m.k = "None"
       THEN pc' = "crashed" /\ exc' = Escapes("TypeError", "top level stats")
       ELSE pc' = "feedback" /\ UNCHANGED exc
    /\ UNCHANGED <<uploaded_file, layout, df, st_error, st_warning, m, feedback, chart_df>>

\* feedback = generate_coach_feedback(m)
CoachFeedback ==
    /\ pc = "feedback"
    /\ feedback' = generate_coach_feedback(m)
    /\ pc' = "charts"
    /\ UNCHANGED <<uploaded_file, layout, df, st_error, st_warning, m, subscripted, chart_df, exc>>

\* chart_df = df.iloc[::10, :].copy(), the two traces, the cadence histogram
Charts ==
    /\ pc = "charts"
    /\ chart_df' = TakeRows(df, [k \in 1..((NRows(df) + 9) \div 10) |-> 10 * (k - 1) + 1])
    /\ IF "heart_rate" \notin df.columns \/ "cadence" \notin df.columns
       THEN pc' = "crashed" /\ exc' = Escapes("KeyError", "charts")
       ELSE IF HasStr(df.data["cadence"])
       THEN pc' = "crashed" /\ exc' = Escapes("TypeError", "charts")
       ELSE pc' = "done" /\ UNCHANGED exc
    /\ UNCHANGED <<uploaded_file, layout, df, st_error, st_warning, m, subscripted, feedback>>

Next ==
    \/ UploadBroken
    \/ UploadDetection
    \/ UploadLayoutA
    \/ UploadLayoutB
    \/ UploadRide
    \/ UploadSteady
    \/ ParseFile
    \/ Branch
    \/ CalculateMetrics
    \/ TopLevelStats
    \/ CoachFeedback
    \/ Charts

Spec == Init /\ [][Next]_vars

(***************************************************************************)
(* Properties.                                                             *)
(***************************************************************************)
\* parse_file has been called and has ended
PastParse == pc \notin {"idle", "parse"}

Fields == {"timestamp", "heart_rate", "cadence", "power"}

\* the cell texts of column c of the uploaded file
Cells(c) == uploaded_file.cells[c]

\* C1: for every raw table that has a power column and in which every
\* timestamp is valid (here: the standard table, timestamp cells empty or a
\* date), parse_file returns exactly the rows whose timestamp and power are
\* both present (power: a number, as an unparseable value is absent), in
\* their original order.
C1_RetainsExactlyRowsWithTimestampAndPower ==
    ( /\ PastParse
      /\ uploaded_file.kind = "csv"
      /\ {"timestamp", "power"} \subseteq uploaded_file.columns
      /\ "GOTOES_CSV" \notin uploaded_file.columns
      /\ \A i \in 1..uploaded_file.nrows :
            Cells("timestamp")[i] = EMPTY \/ IsIsoDate(Cells("timestamp")[i]) )
    => df.index =
          KeptPositions(uploaded_file.nrows,
                        [i \in 1..uploaded_file.nrows |->
                            /\ Cells("timestamp")[i] # EMPTY
                            /\ IsDigits(Cells("power")[i])],
                        1)

\* the failures of parse_file, told from the file and the mapping applied:
\* an empty or unreadable file, a standard table without a timestamp or a
\* power column (in particular one with no recognised column), a shifted
\* table without one of the remapped columns
ParseFailed ==
    \/ uploaded_file.kind \in {"empty", "unreadable"}
    \/ layout = "A" /\ ~({"timestamp", "power"} \subseteq uploaded_file.columns)
    \/ layout = "B" /\ ~({"altitude", "heart_rate", "speed"} \subseteq uploaded_file.columns)

\* C2: for every input file no exception leaves parse_file, and whenever a
\* failure occurred inside it the result is empty and an error has been
\* reported to the caller.
C2_ParseFailuresAreReportedNotRaised ==
    PastParse =>
        /\ exc.at # "parse_file"
        /\ ParseFailed => (st_error /\ df = EmptyDataFrame /\ IsEmptyFrame(df))

\* a shifted table without the altitude column has been parsed
C2_Witness ==
    /\ pc = "branch"
    /\ layout = "B"
    /\ uploaded_file.nrows > 0
    /\ "altitude" \notin uploaded_file.columns
    /\ st_error
    /\ df = EmptyDataFrame

\* C3: whenever calculate_metrics returns None the caller computes nothing
\* further: m is not subscripted, nothing is raised and
\* generate_coach_feedback is not called.
C3_AbsentMetricsAreNotUsed ==
    m.k = "None" => (~subscripted /\ exc = NoExc /\ feedback = <<>>)

\* C4: calculate_metrics returns None exactly when no sample of its input has
\* power > 10, and a metrics record otherwise, for every series parse_file
\* returns (here: the non-empty ones that carry the four fields, with no
\* text in heart_rate or cadence).
C4_AbsentIffNoActiveSample ==
    ( /\ pc \notin {"idle", "parse", "branch", "calc"}
      /\ NRows(df) > 0
      /\ Fields \subseteq df.columns
      /\ ~HasStr(df.data["heart_rate"]) /\ ~HasStr(df.data["cadence"]) )
    => /\ exc.at # "calculate_metrics"
       /\ m.k \in {"None", "dict"}
       /\ m.k = "None" <=> \A i \in 1..NRows(df) : ~Gt(df.data["power"][i], 10)

\* the values of the marker column as read_csv returns them
MarkerValues == read_csv(uploaded_file).df.data["GOTOES_CSV"]

\* the marker column exists and its first non-empty value is a text that
\* contains "202" or "T"
MarkerLooksLikeDate ==
    /\ "GOTOES_CSV" \in uploaded_file.columns
    /\ \E i \in 1..uploaded_file.nrows :
          /\ Cells("GOTOES_CSV")[i] # EMPTY
          /\ \A j \in 1..(i - 1) : Cells("GOTOES_CSV")[j] = EMPTY
          /\ MarkerValues[i].t = "str"
          /\ \/ Contains(Cells("GOTOES_CSV")[i], <<"2", "0", "2">>)
             \/ Contains(Cells("GOTOES_CSV")[i], <<"T">>)

\* C5: parse_file takes the Layout B path if and only if the marker column
\* exists and its first non-empty value contains "202" or "T"; without a
\* marker column, with an entirely empty one, with a first non-empty value
\* without either pattern or with a numeric one, the Layout A path is taken.
C5_LayoutBIffMarkerLooksLikeDate ==
    (PastParse /\ uploaded_file.kind = "csv") =>
        /\ layout = (IF MarkerLooksLikeDate THEN "B" ELSE "A")
        /\ "GOTOES_CSV" \notin uploaded_file.columns => layout = "A"
        /\ "GOTOES_CSV" \in uploaded_file.columns =>
              /\ (\A i \in 1..uploaded_file.nrows : Cells("GOTOES_CSV")[i] = EMPTY)
                    => layout = "A"
              /\ (\E i \in 1..uploaded_file.nrows : MarkerValues[i].t = "num")
                    => layout = "A"

\* the first row of the marker column is empty and the second holds a text
\* with a "T" and no "202": the shifted mapping has been applied
C5_Witness ==
    /\ PastParse
    /\ uploaded_file.kind = "csv"
    /\ "GOTOES_CSV" \in uploaded_file.columns
    /\ uploaded_file.nrows = 2
    /\ Cells("GOTOES_CSV")[1] = EMPTY
    /\ Cells("GOTOES_CSV")[2] = TXT_TIME
    /\ layout = "B"

\* C6: in both layouts a heart_rate, cadence or power cell that is not a
\* number becomes absent in the normalized series, and a timestamp cell that
\* cannot be parsed becomes absent; so no retained sample holds a text.
C6_UnparseableCellsBecomeAbsent ==
    PastParse =>
        /\ \A c \in {"heart_rate", "cadence", "power"} \cap df.columns :
              \A i \in 1..NRows(df) : df.data[c][i].t \in {"num", "nan"}
        /\ "timestamp" \in df.columns =>
              \A i \in 1..NRows(df) : df.data["timestamp"][i].t \in {"ts", "nan"}

\* the rule table as the claim states it
ClaimedFeedback(metrics) ==
    (IF Lt(metrics.avg_pwr, 115) THEN <<"Recovery Ride">>
     ELSE IF Ge(metrics.avg_pwr, 125) /\ Le(metrics.avg_pwr, 140) THEN <<"Sweet Spot Z2">>
     ELSE IF Gt(metrics.avg_pwr, 140) /\ Le(metrics.avg_pwr, 155) THEN <<"High Z2">>
     ELSE IF Gt(metrics.avg_pwr, 160) THEN <<"Intensity Alert">>
     ELSE <<>>)
    \o (IF Lt(metrics.decoupling, 3) THEN <<"Efficiency: Excellent">>
        ELSE IF Ge(metrics.decoupling, 3) /\ Lt(metrics.decoupling, 5)
        THEN <<"Efficiency: Good">>
        ELSE IF Ge(metrics.decoupling, 5) THEN <<"Drift Alert">>
        ELSE <<>>)
    \o (IF Lt(metrics.avg_cad, 85) THEN <<"Grind Warning">>
        ELSE IF Gt(metrics.avg_cad, 90) THEN <<"Spin to Win">>
        ELSE <<>>)

\* C7: for every metrics record generate_coach_feedback returns the messages
\* of the rule table, in the order power, decoupling, cadence; in particular
\* the drift alert if and only if decoupling >= 5.
C7_FeedbackFollowsRuleTable ==
    (pc \in {"charts", "done"} /\ m.k = "dict") => feedback = ClaimedFeedback(m)

\* every sample has the same power and the same heart rate
Steady(frame) ==
    /\ {"power", "heart_rate"} \subseteq frame.columns
    /\ \A i, j \in 1..NRows(frame) :
          /\ frame.data["power"][i] = frame.data["power"][j]
          /\ frame.data["heart_rate"][i] = frame.data["heart_rate"][j]
          /\ frame.data["heart_rate"][i].t = "num"

\* C8: for every series of constant power and constant heart rate for which
\* calculate_metrics returns a record, decoupling is exactly 0, whatever the
\* number of samples and the heart rate.
C8_SteadyRideHasZeroDecoupling ==
    (m.k = "dict" /\ Steady(df)) => m.decoupling = Int2Num(0)

\* the series without its row at position i
RemoveRow(frame, i) ==
    TakeRows(frame, [k \in 1..(NRows(frame) - 1) |-> IF k < i THEN k ELSE k + 1])

\* C9: samples with power <= 10 influence only duration: removing one (so, by
\* repetition, inserting or removing any number of them at any positions)
\* leaves avg_pwr, norm_pwr, avg_hr, avg_cad, ef, decoupling and the midpoint
\* unchanged; duration is the count of all the samples divided by 60; and
\* calculate_metrics leaves the series as parse_file returned it.
C9_InactiveSamplesOnlyAffectDuration ==
    m.k # "unset" =>
        /\ df = parse_file(uploaded_file).df
        /\ m.k = "dict" => m.duration = Num(NRows(df), 60)
        /\ \A i \in 1..NRows(df) :
              Le(df.data["power"][i], 10) =>
                  LET less == RemoveRow(df, i)
                      r == calculate_metrics(less)
                  IN  /\ r.raised = "none"
                      /\ r.m.k = m.k
                      /\ r.m.avg_pwr = m.avg_pwr
                      /\ r.m.norm_pwr = m.norm_pwr
                      /\ r.m.avg_hr = m.avg_hr
                      /\ r.m.avg_cad = m.avg_cad
                      /\ r.m.ef = m.ef
                      /\ r.m.decoupling = m.decoupling
                      /\ mid(less, Active(less)) = mid(df, Active(df))
                      /\ m.k = "dict" => r.m.duration = Num(NRows(df) - 1, 60)

\* a ride of four samples, two of them not active, whose two active samples
\* differ in heart rate, has its metrics
C9_Witness ==
    /\ m.k = "dict"
    /\ NRows(df) = 4
    /\ NRows(Active(df)) = 2
    /\ m.decoupling.t = "num"
    /\ m.decoupling.n # 0
    /\ m.duration = Num(4, 60)

\* C10: every sample of a series returned by parse_file carries the four
\* fields, heart_rate and cadence possibly absent, so calculate_metrics does
\* not fail on a missing field.
C10_SamplesCarryTheFourFields ==
    PastParse =>
        /\ NRows(df) > 0 => Fields \subseteq df.columns
        /\ ~(exc.at = "calculate_metrics" /\ exc.type = "KeyError")

====
